---- MODULE Spec2Model ----
(***************************************************************************)
(* A model of a-runtime: a single-threaded executor (task table, shared   *)
(* ready queue, park/unpark), the reactor's waker registry and event      *)
(* loop, the HttpGetFuture leaf future and the hand-expanded Coroutine0   *)
(* state machine.                                                          *)
(*                                                                         *)
(* Threads: the executor thread (epc), the reactor thread (rpc), the      *)
(* peers of the open connections (PeerSend / PeerClose) and, in the       *)
(* ready-queue specification, producer threads that fire Wakers (wpc).    *)
(***************************************************************************)
EXTENDS Integers, Sequences, FiniteSets, TLC

\* ---------------------------------------------------------------- bounds

\* Bytes the peers send in all, over every connection: to a task run by
\* block_on, and to a coroutine polled directly.
MaxBytes == 1
MaxBytesCo == 2

\* Threads that fire a Waker each, in the ready-queue specification.
NProd == 3

\* OperationIds the registry specification uses.
MaxOps == 2

\* Events the OS delivers in the registry specification.
MaxEvents == 2

\* Threads that build leaf futures, and the futures each builds, in the
\* OperationId specification.
NIdThreads == 3
MaxCalls == 2

\* ------------------------------------------------------------- variables

VARIABLES
  epc,             \* executor thread: position in main / block_on / poll
  caller,          \* the top-level call the executor thread is running
  cur,             \* block_on's local `id` (spawn's local `id` in spawn)
  tasks,           \* ExecutorCore.tasks: the ids whose Task is in the table
  co,              \* the Coroutine0 objects, by TaskId
  ready_queue,     \* ExecutorCore.ready_queue
  next_id,         \* ExecutorCore.next_id
  token,           \* the executor thread's park token
  lres,            \* value returned by the child's poll
  pres,            \* value returned by Coroutine0::poll
  wakers,          \* Reactor.wakers: OperationId -> Waker (its TaskId)
  reactor_next_id, \* Reactor.next_id
  rpc,             \* reactor thread: position in event_loop
  revents,         \* event_loop's `events` still to be iterated
  wlock,           \* holder of the Mutex around Reactor.wakers
  qlock,           \* holder of the Mutex around ready_queue
  osReg,           \* tokens registered with the mio Registry
  osEvents,        \* readiness events the OS holds for the next Poll::poll
  conn,            \* the TCP connections, by OperationId
  woken,           \* history: TaskId pushed since the task's last poll began
  owed,            \* history: pushes of a TaskId less the pops block_on handled
  lastSet,         \* history: by OperationId, the Waker of the latest set_waker
                   \* after the one it replaced (empty once deregistered)
  leafPoll,        \* history of the latest poll of a leaf future: whether it
                   \* opened the stream, whether set_waker was called in it
  wpc,             \* threads firing Wakers: position in Waker::wake
  popped,          \* ids a consumer got from pop_ready, in order
  got              \* <<thread, OperationId>> of the futures threads built, in order

execVars == <<epc, caller, cur, tasks, co, ready_queue, next_id, token, lres, pres>>
reactorVars == <<wakers, reactor_next_id, rpc, revents, wlock, qlock>>
osVars == <<osReg, osEvents, conn>>
histVars == <<woken, owed, lastSet, leafPoll>>
testVars == <<wpc, popped, got>>
vars == <<execVars, reactorVars, osVars, histVars, testVars>>

\* ------------------------------------------------------------ data types

\* Mutex holders and threads.
Free == <<>>
ExecT == <<"exec">>
ReactorT == <<"reactor">>

\* Option<usize> as a sequence of length at most one.
None == <<>>
Some(v) == <<v>>

\* PollState / Poll values.
NoResult == [ready |-> FALSE, val |-> <<>>, set |-> FALSE]
NotReady == [ready |-> FALSE, val |-> <<>>, set |-> TRUE]
Ready(s) == [ready |-> TRUE, val |-> s, set |-> TRUE]

\* The placeholder for "no id popped".
NoId == -1

\* The value of a State0 variant that holds no child future.
NoFut == [stream |-> FALSE, buffer |-> <<>>, id |-> 0]

\* AtomicUsize::load in the place of fetch_add: the counter is left as it
\* is.
fetch_add_Load(v) == [old |-> v, new |-> v]

\* Reactor::next_id: fetch_add(1, Relaxed) on the counter of value v, one
\* atomic step: the value returned and the value left.
fetch_add(v) == [old |-> v, new |-> v + 1]

\* HttpGetFuture::new with the id handed out by Reactor::next_id.
HttpGetFuture_new(id) == [stream |-> FALSE, buffer |-> <<>>, id |-> id]

\* Coroutine0::new.
Coroutine0_new == [state |-> "Start", counter |-> None, fut |-> NoFut]

\* A freshly connected socket, and a socket whose stream was dropped.
OpenConn == [open |-> TRUE, sent |-> <<>>, rd |-> 0, closed |-> FALSE]
DroppedConn(c) == [open |-> FALSE, sent |-> c.sent, rd |-> Len(c.sent), closed |-> TRUE]

\* Bytes the peer may send: an ASCII byte, and a byte that occurs in no
\* UTF-8 sequence.
PeerBytes == {65, 255}

\* String::from_utf8_lossy, on bytes that are ASCII (one char each) or can
\* occur in no UTF-8 sequence (each replaced by U+FFFD).
RECURSIVE from_utf8_lossy(_)
from_utf8_lossy(bytes) ==
  IF bytes = <<>> THEN <<>>
  ELSE <<IF Head(bytes) < 128 THEN Head(bytes) ELSE 65533>>
       \o from_utf8_lossy(Tail(bytes))

\* Number of occurrences of id in the sequence q.
RECURSIVE Count(_, _)
Count(q, id) ==
  IF q = <<>> THEN 0
  ELSE (IF Head(q) = id THEN 1 ELSE 0) + Count(Tail(q), id)

\* All orderings of the finite set S, as sequences.
Orderings(S) ==
  {s \in [1..Cardinality(S) -> S] : \A i, j \in 1..Cardinality(S) : i # j => s[i] # s[j]}

\* ------------------------------------------------------------------ Init

\* The state after runtime::init(): the reactor started, nothing spawned.
\* The executor thread starts at pc, running the call c, with the local id
\* t, the futures objs and the Waker-firing threads prod.
InitWith(pc, c, t, objs, prod) ==
  /\ epc = pc
  /\ caller = c
  /\ cur = t
  /\ tasks = {}
  /\ co = objs
  /\ ready_queue = <<>>
  /\ next_id = 0
  /\ token = FALSE
  /\ lres = NoResult
  /\ pres = NoResult
  /\ wakers = <<>>
  /\ reactor_next_id = 1
  /\ rpc = "r_poll"
  /\ revents = <<>>
  /\ wlock = Free
  /\ qlock = Free
  /\ osReg = {}
  /\ osEvents = {}
  /\ conn = <<>>
  /\ woken = <<>>
  /\ owed = <<>>
  /\ lastSet = <<>>
  /\ leafPoll = [first |-> FALSE, stored |-> FALSE]
  /\ wpc = prod
  /\ popped = <<>>
  /\ got = <<>>

Init == InitWith("main", "main", NoId, <<>>, <<>>)

\* ---------------------------------------------------------------- history

\* The value of the history function h at k, 0 where it has none yet.
At(h, k) == IF k \in DOMAIN h THEN h[k] ELSE 0

\* A push of the TaskId id: the task is woken, one more pop is owed.
NotePush(id) ==
  /\ woken' = (id :> TRUE) @@ woken
  /\ owed' = (id :> At(owed, id) + 1) @@ owed

\* block_on handles the popped TaskId id; polled says whether it polls.
NotePop(id, polled) ==
  /\ woken' = IF polled THEN (id :> FALSE) @@ woken ELSE woken
  /\ owed' = (id :> At(owed, id) - 1) @@ owed

\* set_waker(w, id) and deregister(id), as the registry's history.
NoteSet(w, id) ==
  /\ lastSet' = (id :> (IF id \in DOMAIN lastSet /\ lastSet[id] # <<>>
                          THEN <<lastSet[id][Len(lastSet[id])], w>>
                          ELSE <<w>>)) @@ lastSet
  /\ leafPoll' = [leafPoll EXCEPT !.stored = TRUE]

\* A poll of a leaf future begins; opens says whether it has no stream yet.
NotePoll(opens) == leafPoll' = [first |-> opens, stored |-> FALSE]
NoteDeregister(id) == lastSet' = (id :> <<>>) @@ lastSet

\* ------------------------------------------------- executor: the queue

\* Vec::push on the ready queue.
PushBack(q, id) == Append(q, id)

\* Vec::last where pop should be: the element is read and left in place.
PopBack_Peek(q) == [id |-> q[Len(q)], rest |-> q]

\* Vec::pop on the ready queue: the element taken and the queue left.
PopBack(q) == [id |-> q[Len(q)], rest |-> SubSeq(q, 1, Len(q) - 1)]

\* MutexGuard of a lock taken by thread th: acquiring blocks while it is held.
Acquire(lock, th) == lock = Free /\ lock' = th

\* ---------------------------------------------------- executor: spawn

\* main: executor.block_on(async_main()), which spawns its argument first.
BlockOn ==
  /\ epc = "main"
  /\ epc' = "spawn"
  /\ caller' = "block_on"
  /\ UNCHANGED <<cur, tasks, co, ready_queue, next_id, token, lres, pres>>
  /\ UNCHANGED <<reactorVars, osVars, histVars>>
  /\ UNCHANGED testVars

\* spawn: take the next id and insert the boxed future into the table.
SpawnInsert ==
  /\ epc = "spawn"
  /\ cur' = next_id
  /\ tasks' = tasks \cup {next_id}
  /\ co' = (next_id :> Coroutine0_new) @@ co
  /\ epc' = "spawn_push"
  /\ UNCHANGED <<caller, ready_queue, next_id, token, lres, pres>>
  /\ UNCHANGED <<reactorVars, osVars, histVars>>
  /\ UNCHANGED testVars

\* spawn: push the id under the queue lock, then bump the allocator.
SpawnPush ==
  /\ epc = "spawn_push"
  /\ qlock = Free
  /\ ready_queue' = PushBack(ready_queue, cur)
  /\ next_id' = cur + 1
  /\ NotePush(cur)
  /\ epc' = "pop"
  /\ cur' = NoId
  /\ UNCHANGED <<caller, tasks, co, token, lres, pres>>
  /\ UNCHANGED <<reactorVars, osVars, lastSet, leafPoll>>
  /\ UNCHANGED testVars

\* ------------------------------------------------- executor: block_on

\* pop_ready: take the queue lock.
PopLock ==
  /\ epc = "pop"
  /\ Acquire(qlock, ExecT)
  /\ epc' = "pop_locked"
  /\ UNCHANGED <<caller, cur, tasks, co, ready_queue, next_id, token, lres, pres>>
  /\ UNCHANGED <<wakers, reactor_next_id, rpc, revents, wlock>>
  /\ UNCHANGED <<osVars, histVars>>
  /\ UNCHANGED testVars

\* pop_ready that gives the last id and leaves the queue as it is.
pop_ready_NoPop ==
  /\ qlock = ExecT
  /\ qlock' = Free
  /\ ready_queue' = ready_queue

\* pop_ready whose guard outlives the call (the MutexGuard returned with
\* the id): the queue lock is still held when the task is polled.
pop_ready_KeepsLock ==
  /\ qlock = ExecT
  /\ qlock' = qlock
  /\ ready_queue' = IF ready_queue = <<>> THEN <<>> ELSE PopBack(ready_queue).rest

\* pop_ready: q.pop() under the lock, and the guard's drop.
pop_ready ==
  /\ qlock = ExecT
  /\ qlock' = Free
  /\ ready_queue' = IF ready_queue = <<>> THEN <<>> ELSE PopBack(ready_queue).rest

\* The Option<usize> pop_ready returns.
pop_ready_value == IF ready_queue = <<>> THEN None ELSE Some(PopBack(ready_queue).id)

\* The while-let on pop_ready: Some(id) enters the loop body, None leaves
\* the loop.
PopReady ==
  /\ epc = "pop_locked"
  /\ caller = "block_on"
  /\ pop_ready
  /\ IF pop_ready_value = None
       THEN /\ epc' = "count"
            /\ UNCHANGED cur
       ELSE /\ cur' = pop_ready_value[1]
            /\ epc' = "get_future"
  /\ UNCHANGED <<caller, tasks, co, next_id, token, lres, pres>>
  /\ UNCHANGED <<wakers, reactor_next_id, rpc, revents, wlock>>
  /\ UNCHANGED <<osVars, histVars>>
  /\ UNCHANGED testVars

\* GetFuture with get_future reading the table (get) where it should
\* remove.
GetFuture_NoRemove ==
  /\ epc = "get_future"
  /\ IF cur \in tasks
       THEN /\ epc' = "co_loop"
            /\ cur' = cur
            /\ NotePop(cur, TRUE)
       ELSE /\ epc' = "pop"
            /\ cur' = NoId
            /\ NotePop(cur, FALSE)
  /\ UNCHANGED <<caller, tasks, co, ready_queue, next_id, token, lres, pres>>
  /\ UNCHANGED <<reactorVars, osVars, lastSet, leafPoll>>
  /\ UNCHANGED testVars

\* GetFuture with the missing task unwrapped where it should be skipped.
GetFuture_Unwrap ==
  /\ epc = "get_future"
  /\ IF cur \in tasks
       THEN /\ tasks' = tasks \ {cur}
            /\ epc' = "co_loop"
            /\ cur' = cur
            /\ NotePop(cur, TRUE)
       ELSE /\ epc' = "panicked"
            /\ NotePop(cur, FALSE)
            /\ UNCHANGED <<tasks, cur>>
  /\ UNCHANGED <<caller, co, ready_queue, next_id, token, lres, pres>>
  /\ UNCHANGED <<reactorVars, osVars, lastSet, leafPoll>>
  /\ UNCHANGED testVars

\* get_future: remove the task from the table; a missing task is a false
\* wakeup and the loop continues. Otherwise get_waker and the call of
\* future.poll(&waker).
GetFuture ==
  /\ epc = "get_future"
  /\ IF cur \in tasks
       THEN /\ tasks' = tasks \ {cur}
            /\ epc' = "co_loop"
            /\ cur' = cur
            /\ NotePop(cur, TRUE)
       ELSE /\ epc' = "pop"
            /\ cur' = NoId
            /\ NotePop(cur, FALSE)
            /\ UNCHANGED tasks
  /\ UNCHANGED <<caller, co, ready_queue, next_id, token, lres, pres>>
  /\ UNCHANGED <<reactorVars, osVars, lastSet, leafPoll>>
  /\ UNCHANGED testVars

\* The match on the poll's result: NotReady reinserts the task, Ready
\* drops it.
AfterPoll ==
  /\ epc = "after_poll"
  /\ caller = "block_on"
  /\ tasks' = IF pres.ready THEN tasks ELSE tasks \cup {cur}
  /\ pres' = NoResult
  /\ cur' = NoId
  /\ epc' = "pop"
  /\ UNCHANGED <<caller, co, ready_queue, next_id, token, lres>>
  /\ UNCHANGED <<reactorVars, osVars, histVars>>
  /\ UNCHANGED testVars

\* The branch on task_count with >= where it should be >.
TaskCount_AlwaysPark ==
  /\ epc = "count"
  /\ epc' = IF Cardinality(tasks) >= 0 THEN "park" ELSE "done"
  /\ UNCHANGED <<caller, cur, tasks, co, ready_queue, next_id, token, lres, pres>>
  /\ UNCHANGED <<reactorVars, osVars, histVars>>
  /\ UNCHANGED testVars

\* task_count and the branch on it: park, or leave the loop.
TaskCount ==
  /\ epc = "count"
  /\ epc' = IF Cardinality(tasks) > 0 THEN "park" ELSE "done"
  /\ UNCHANGED <<caller, cur, tasks, co, ready_queue, next_id, token, lres, pres>>
  /\ UNCHANGED <<reactorVars, osVars, histVars>>
  /\ UNCHANGED testVars

\* park that returns without a token (thread::yield_now in its place).
Park_Spin ==
  /\ epc = "park"
  /\ token' = FALSE
  /\ epc' = "pop"
  /\ UNCHANGED <<caller, cur, tasks, co, ready_queue, next_id, lres, pres>>
  /\ UNCHANGED <<reactorVars, osVars, histVars>>
  /\ UNCHANGED testVars

\* thread::park: returns once the token is set, consuming it.
Park ==
  /\ epc = "park"
  /\ token
  /\ token' = FALSE
  /\ epc' = "pop"
  /\ UNCHANGED <<caller, cur, tasks, co, ready_queue, next_id, lres, pres>>
  /\ UNCHANGED <<reactorVars, osVars, histVars>>
  /\ UNCHANGED testVars

\* ------------------------------------------------------------ reactor API

\* The map without the key k.
RemoveKey(f, k) == [x \in DOMAIN f \ {k} |-> f[x]]

\* set_waker keeping the Waker already stored (entry().or_insert).
set_waker_KeepFirst(w, id) ==
  /\ wlock = Free
  /\ wakers' = wakers @@ (id :> w)
  /\ NoteSet(w, id)

\* Reactor::set_waker: insert under the registry lock, replacing any
\* Waker stored for the id.
set_waker(w, id) ==
  /\ wlock = Free
  /\ wakers' = (id :> w) @@ wakers
  /\ NoteSet(w, id)

\* Reactor::register: the token is added to the OS event source.
register(id) == osReg' = osReg \cup {id}

\* Reactor::deregister: remove the Waker under the lock, then take the
\* stream out of the OS event source.
deregister(id) ==
  /\ wakers' = RemoveKey(wakers, id)
  /\ NoteDeregister(id)
  /\ osReg' = osReg \ {id}
  /\ osEvents' = osEvents \ {id}

\* ------------------------------------------------------ Coroutine0::poll

\* Where a poll returns to: block_on's match, or the direct caller.
ReturnPc == IF caller = "block_on" THEN "after_poll" ELSE "test"

\* State0::Start: initialise the stack, build the first child, go to Wait1
\* and loop.
CoStart ==
  /\ epc = "co_loop"
  /\ co[cur].state = "Start"
  /\ co' = [co EXCEPT ![cur] = [state |-> "Wait1", counter |-> Some(0),
                                fut |-> HttpGetFuture_new(fetch_add(reactor_next_id).old)]]
  /\ reactor_next_id' = fetch_add(reactor_next_id).new
  /\ UNCHANGED <<epc, caller, cur, tasks, ready_queue, next_id, token, lres, pres>>
  /\ UNCHANGED <<wakers, rpc, revents, wlock, qlock>>
  /\ UNCHANGED <<osVars, histVars>>
  /\ UNCHANGED testVars

\* The NotReady arm placed after the take of the counter: the stack slot
\* is left empty on the way out.
CoChildNotReady_TakesCounter ==
  /\ pres' = NotReady
  /\ epc' = ReturnPc
  /\ co' = [co EXCEPT ![cur].counter = None]

\* The child returned NotReady: break with NotReady, the state untouched.
CoChildNotReady ==
  /\ pres' = NotReady
  /\ epc' = ReturnPc
  /\ UNCHANGED co

\* The Wait1 arm with the Wait2 arm's body: Resolved, and Ready returned.
CoWait1Ready_ToResolved ==
  /\ epc = "co_after"
  /\ co[cur].state = "Wait1"
  /\ co' = [co EXCEPT ![cur] = [state |-> "Resolved", counter |-> None, fut |-> NoFut]]
  /\ conn' = [conn EXCEPT ![co[cur].fut.id] = DroppedConn(@)]
  /\ lres' = NoResult
  /\ pres' = Ready(<<>>)
  /\ epc' = ReturnPc
  /\ UNCHANGED <<caller, cur, tasks, ready_queue, next_id, token>>
  /\ UNCHANGED <<reactorVars, osReg, osEvents, histVars>>
  /\ UNCHANGED testVars

\* Wait1, the child returned Ready: take the counter, build the second
\* child, go to Wait2 (the first child and its stream are dropped), save
\* the counter and loop.
CoWait1Ready ==
  /\ epc = "co_after"
  /\ co[cur].state = "Wait1"
  /\ IF co[cur].counter = None
       THEN /\ epc' = "panicked"
            /\ UNCHANGED <<co, reactor_next_id, conn, lres>>
       ELSE /\ co' = [co EXCEPT ![cur] = [state |-> "Wait2",
                                          counter |-> Some(co[cur].counter[1] + 1),
                                          fut |-> HttpGetFuture_new(fetch_add(reactor_next_id).old)]]
            /\ reactor_next_id' = fetch_add(reactor_next_id).new
            /\ conn' = [conn EXCEPT ![co[cur].fut.id] = DroppedConn(@)]
            /\ lres' = NoResult
            /\ epc' = "co_loop"
  /\ UNCHANGED <<caller, cur, tasks, ready_queue, next_id, token, pres>>
  /\ UNCHANGED <<wakers, rpc, revents, wlock, qlock>>
  /\ UNCHANGED <<osReg, osEvents, histVars>>
  /\ UNCHANGED testVars

\* Wait2, the child returned Ready: take the counter, go to Resolved (the
\* second child is dropped) and break with Ready(String::new()).
CoWait2Ready ==
  /\ epc = "co_after"
  /\ co[cur].state = "Wait2"
  /\ IF co[cur].counter = None
       THEN /\ epc' = "panicked"
            /\ UNCHANGED <<co, conn, lres, pres>>
       ELSE /\ co' = [co EXCEPT ![cur] = [state |-> "Resolved", counter |-> None,
                                          fut |-> NoFut]]
            /\ conn' = [conn EXCEPT ![co[cur].fut.id] = DroppedConn(@)]
            /\ lres' = NoResult
            /\ pres' = Ready(<<>>)
            /\ epc' = ReturnPc
  /\ UNCHANGED <<caller, cur, tasks, ready_queue, next_id, token>>
  /\ UNCHANGED <<reactorVars, osReg, osEvents, histVars>>
  /\ UNCHANGED testVars

\* ---------------------------------------------------- HttpGetFuture::poll

\* The leaf future the coroutine being polled holds.
Leaf == co[cur].fut

\* Bytes the socket of operation id holds unread.
Avail(id) == Len(conn[id].sent) - conn[id].rd

\* The first poll with the call of register left out.
LeafStart_NoRegister ==
  /\ co' = [co EXCEPT ![cur].fut.stream = TRUE]
  /\ conn' = (Leaf.id :> OpenConn) @@ conn
  /\ osReg' = osReg
  /\ epc' = "leaf_setw1"

\* First poll (no stream yet): write_request (connect, write the request,
\* keep the stream) and register read interest under the future's id.
LeafStart ==
  /\ co' = [co EXCEPT ![cur].fut.stream = TRUE]
  /\ conn' = (Leaf.id :> OpenConn) @@ conn
  /\ register(Leaf.id)
  /\ epc' = "leaf_setw1"

\* CoMatch with a Resolved arm that returns Ready again where it should
\* panic.
CoMatch_ResolvedReady ==
  /\ epc = "co_loop"
  /\ co[cur].state # "Start"
  /\ IF co[cur].state = "Resolved"
       THEN /\ epc' = ReturnPc
            /\ pres' = Ready(<<>>)
            /\ UNCHANGED <<co, conn, osReg, leafPoll>>
       ELSE /\ pres' = pres
            /\ NotePoll(~Leaf.stream)
            /\ IF ~Leaf.stream
                 THEN LeafStart
                 ELSE /\ epc' = "leaf_read"
                      /\ UNCHANGED <<co, conn, osReg>>
  /\ UNCHANGED <<caller, cur, tasks, ready_queue, next_id, token, lres>>
  /\ UNCHANGED <<reactorVars, osEvents, woken, owed, lastSet>>
  /\ UNCHANGED testVars

\* State0::Wait1 / Wait2: poll the held child, which starts its operation
\* or goes straight to the read loop. State0::Resolved:
\* panic!("Polled a resolved future").
CoMatch ==
  /\ epc = "co_loop"
  /\ co[cur].state # "Start"
  /\ IF co[cur].state = "Resolved"
       THEN /\ epc' = "panicked"
            /\ UNCHANGED <<co, conn, osReg, leafPoll>>
       ELSE /\ NotePoll(~Leaf.stream)
            /\ IF ~Leaf.stream
                 THEN LeafStart
                 ELSE /\ epc' = "leaf_read"
                      /\ UNCHANGED <<co, conn, osReg>>
  /\ UNCHANGED <<caller, cur, tasks, ready_queue, next_id, token, lres, pres>>
  /\ UNCHANGED <<reactorVars, osEvents, woken, owed, lastSet>>
  /\ UNCHANGED testVars

\* The first poll with its set_waker left out.
LeafSetWakerFirst_Skipped ==
  /\ epc = "leaf_setw1"
  /\ epc' = "leaf_read"
  /\ UNCHANGED <<caller, cur, tasks, co, ready_queue, next_id, token, lres, pres>>
  /\ UNCHANGED <<reactorVars, osVars, histVars>>
  /\ UNCHANGED testVars

\* First poll: set_waker(cx, self.id), then on to the read loop.
LeafSetWakerFirst ==
  /\ epc = "leaf_setw1"
  /\ set_waker(cur, Leaf.id)
  /\ epc' = "leaf_read"
  /\ UNCHANGED <<caller, cur, tasks, co, ready_queue, next_id, token, lres, pres>>
  /\ UNCHANGED <<reactor_next_id, rpc, revents, wlock, qlock>>
  /\ UNCHANGED <<osVars, woken, owed>>
  /\ UNCHANGED testVars

\* The Ok(n) arm assigning the chunk to the buffer where it should extend
\* it.
LeafReadData_Overwrite ==
  /\ epc = "leaf_read"
  /\ Avail(Leaf.id) > 0
  /\ \E n \in 1..Avail(Leaf.id) :
       /\ co' = [co EXCEPT ![cur].fut.buffer =
                   SubSeq(conn[Leaf.id].sent, conn[Leaf.id].rd + 1, conn[Leaf.id].rd + n)]
       /\ conn' = [conn EXCEPT ![Leaf.id].rd = @ + n]
  /\ UNCHANGED <<epc, caller, cur, tasks, ready_queue, next_id, token, lres, pres>>
  /\ UNCHANGED <<reactorVars, osReg, osEvents, histVars>>
  /\ UNCHANGED testVars

\* read returns Ok(n), n > 0: extend the buffer and read again.
LeafReadData ==
  /\ epc = "leaf_read"
  /\ Avail(Leaf.id) > 0
  /\ \E n \in 1..Avail(Leaf.id) :
       /\ co' = [co EXCEPT ![cur].fut.buffer =
                   @ \o SubSeq(conn[Leaf.id].sent, conn[Leaf.id].rd + 1, conn[Leaf.id].rd + n)]
       /\ conn' = [conn EXCEPT ![Leaf.id].rd = @ + n]
  /\ UNCHANGED <<epc, caller, cur, tasks, ready_queue, next_id, token, lres, pres>>
  /\ UNCHANGED <<reactorVars, osReg, osEvents, histVars>>
  /\ UNCHANGED testVars

\* read returns Ok(0): the peer closed; on to deregister.
LeafReadEof ==
  /\ epc = "leaf_read"
  /\ Avail(Leaf.id) = 0
  /\ conn[Leaf.id].closed
  /\ epc' = "leaf_dereg"
  /\ UNCHANGED <<caller, cur, tasks, co, ready_queue, next_id, token, lres, pres>>
  /\ UNCHANGED <<reactorVars, osVars, histVars>>
  /\ UNCHANGED testVars

\* read returns WouldBlock: on to set_waker.
LeafReadWouldBlock ==
  /\ epc = "leaf_read"
  /\ Avail(Leaf.id) = 0
  /\ ~conn[Leaf.id].closed
  /\ epc' = "leaf_setw2"
  /\ UNCHANGED <<caller, cur, tasks, co, ready_queue, next_id, token, lres, pres>>
  /\ UNCHANGED <<reactorVars, osVars, histVars>>
  /\ UNCHANGED testVars

\* read returns Interrupted: read again.
LeafReadInterrupted ==
  /\ epc = "leaf_read"
  /\ UNCHANGED vars

\* The WouldBlock arm returning Pending with its set_waker left out.
LeafSetWakerAgain_NoSet ==
  /\ epc = "leaf_setw2"
  /\ CoChildNotReady
  /\ UNCHANGED <<caller, cur, tasks, ready_queue, next_id, token, lres>>
  /\ UNCHANGED <<reactorVars, osVars, histVars>>
  /\ UNCHANGED testVars

\* WouldBlock: store the current Waker and return Pending, which the
\* coroutine passes up.
LeafSetWakerAgain ==
  /\ epc = "leaf_setw2"
  /\ set_waker(cur, Leaf.id)
  /\ CoChildNotReady
  /\ UNCHANGED <<caller, cur, tasks, ready_queue, next_id, token, lres>>
  /\ UNCHANGED <<reactor_next_id, rpc, revents, wlock, qlock>>
  /\ UNCHANGED <<osVars, woken, owed>>
  /\ UNCHANGED testVars

\* The Ok(0) arm returning Ready with the call of deregister left out.
LeafDeregister_Skipped ==
  /\ epc = "leaf_dereg"
  /\ lres' = Ready(from_utf8_lossy(Leaf.buffer))
  /\ epc' = "co_after"
  /\ UNCHANGED <<caller, cur, tasks, co, ready_queue, next_id, token, pres>>
  /\ UNCHANGED <<reactorVars, osVars, histVars>>
  /\ UNCHANGED testVars

\* Ok(0): decode the buffer, deregister (the unwrap of remove's None
\* panics) and return Ready(s).
LeafDeregister ==
  /\ epc = "leaf_dereg"
  /\ wlock = Free
  /\ IF Leaf.id \in DOMAIN wakers
       THEN /\ deregister(Leaf.id)
            /\ lres' = Ready(from_utf8_lossy(Leaf.buffer))
            /\ epc' = "co_after"
       ELSE /\ epc' = "panicked"
            /\ UNCHANGED <<wakers, lastSet, osReg, osEvents, lres>>
  /\ UNCHANGED <<caller, cur, tasks, co, ready_queue, next_id, token, pres>>
  /\ UNCHANGED <<reactor_next_id, rpc, revents, wlock, qlock>>
  /\ UNCHANGED <<conn, woken, owed, leafPoll>>
  /\ UNCHANGED testVars

\* ------------------------------------------------------------ Waker::wake

\* wake: push the Waker's id onto the ready queue (under the queue lock).
WakePush(id) ==
  /\ ready_queue' = PushBack(ready_queue, id)
  /\ NotePush(id)

\* wake with the unpark forgotten.
Unpark_Forgotten == token' = token

\* wake: self.thread.unpark() sets the executor thread's token.
Unpark == token' = TRUE

\* ------------------------------------------------------------- event_loop

\* poll.poll(&mut events, None): blocks until the OS has events, and takes
\* them all.
ReactorPoll ==
  /\ rpc = "r_poll"
  /\ osEvents # {}
  /\ revents' \in Orderings(osEvents)
  /\ osEvents' = {}
  /\ rpc' = "r_lock"
  /\ UNCHANGED <<execVars, wakers, reactor_next_id, wlock, qlock, osReg, conn, histVars>>
  /\ UNCHANGED testVars

\* The loop body for the event at hand: lock the registry and look the
\* token up; without a Waker the event is skipped.
ReactorLock ==
  /\ rpc = "r_lock"
  /\ Acquire(wlock, ReactorT)
  /\ rpc' = IF Head(revents) \in DOMAIN wakers THEN "r_wake_lock" ELSE "r_unlock"
  /\ UNCHANGED <<execVars, wakers, reactor_next_id, revents, qlock, osVars, histVars>>
  /\ UNCHANGED testVars

\* waker.wake_by_ref(): take the queue lock.
ReactorWakeLock ==
  /\ rpc = "r_wake_lock"
  /\ Acquire(qlock, ReactorT)
  /\ rpc' = "r_wake_push"
  /\ UNCHANGED <<execVars, wakers, reactor_next_id, revents, wlock, osVars, histVars>>
  /\ UNCHANGED testVars

\* The event's token pushed where the id of the stored Waker should be.
ReactorWakePush_Token ==
  /\ rpc = "r_wake_push"
  /\ WakePush(Head(revents))
  /\ qlock' = Free
  /\ rpc' = "r_unpark"
  /\ UNCHANGED <<epc, caller, cur, tasks, co, next_id, token, lres, pres>>
  /\ UNCHANGED <<wakers, reactor_next_id, revents, wlock, osVars, lastSet, leafPoll>>
  /\ UNCHANGED testVars

\* wake: push the id and drop the queue guard.
ReactorWakePush ==
  /\ rpc = "r_wake_push"
  /\ WakePush(wakers[Head(revents)])
  /\ qlock' = Free
  /\ rpc' = "r_unpark"
  /\ UNCHANGED <<epc, caller, cur, tasks, co, next_id, token, lres, pres>>
  /\ UNCHANGED <<wakers, reactor_next_id, revents, wlock, osVars, lastSet, leafPoll>>
  /\ UNCHANGED testVars

\* wake: unpark the executor thread.
ReactorUnpark ==
  /\ rpc = "r_unpark"
  /\ Unpark
  /\ rpc' = "r_unlock"
  /\ UNCHANGED <<epc, caller, cur, tasks, co, ready_queue, next_id, lres, pres>>
  /\ UNCHANGED <<wakers, reactor_next_id, revents, wlock, qlock, osVars, histVars>>
  /\ UNCHANGED testVars

\* The loop body taking the Waker out of the registry (remove where get
\* should be), so that a Waker fires once.
ReactorUnlock_Take ==
  /\ rpc = "r_unlock"
  /\ wlock' = Free
  /\ wakers' = RemoveKey(wakers, Head(revents))
  /\ revents' = Tail(revents)
  /\ rpc' = IF Tail(revents) = <<>> THEN "r_poll" ELSE "r_lock"
  /\ UNCHANGED <<execVars, reactor_next_id, qlock, osVars, histVars>>
  /\ UNCHANGED testVars

\* End of the loop body: the registry guard is dropped; next event, or
\* back to poll.
ReactorUnlock ==
  /\ rpc = "r_unlock"
  /\ wlock' = Free
  /\ revents' = Tail(revents)
  /\ rpc' = IF Tail(revents) = <<>> THEN "r_poll" ELSE "r_lock"
  /\ UNCHANGED <<execVars, wakers, reactor_next_id, qlock, osVars, histVars>>
  /\ UNCHANGED testVars

\* ------------------------------------------------------------------ peers

\* The OS queues a readiness event for a registered token.
Readiness(id) == IF id \in osReg THEN osEvents \cup {id} ELSE osEvents

\* Bytes sent so far over the connections in S.
RECURSIVE SumSent(_)
SumSent(S) ==
  IF S = {} THEN 0
  ELSE LET x == CHOOSE y \in S : TRUE
       IN Len(conn[x].sent) + SumSent(S \ {x})

BytesSent == SumSent(DOMAIN conn)

\* The bytes the peers have to send in the specification at hand.
ByteBudget == IF caller = "test" THEN MaxBytesCo ELSE MaxBytes

\* The peer of connection id sends one more byte of its response.
PeerSend(id, b) ==
  /\ conn[id].open
  /\ ~conn[id].closed
  /\ BytesSent < ByteBudget
  /\ conn' = [conn EXCEPT ![id].sent = Append(@, b)]
  /\ osEvents' = Readiness(id)
  /\ UNCHANGED <<execVars, reactorVars, osReg, histVars>>
  /\ UNCHANGED testVars

\* The peer of connection id closes it.
PeerClose(id) ==
  /\ conn[id].open
  /\ ~conn[id].closed
  /\ conn' = [conn EXCEPT ![id].closed = TRUE]
  /\ osEvents' = Readiness(id)
  /\ UNCHANGED <<execVars, reactorVars, osReg, histVars>>
  /\ UNCHANGED testVars

\* ------------------------------------------ Wakers fired from threads

\* The threads of the ready-queue specification; thread p holds the Waker
\* of TaskId p - 1.
Producers == 1..NProd
WakerT(p) == <<"waker", p>>

\* Thread p, wake: take the queue lock.
WakeLock(p) ==
  /\ wpc[p] = "w_lock"
  /\ Acquire(qlock, WakerT(p))
  /\ wpc' = [wpc EXCEPT ![p] = "w_push"]
  /\ UNCHANGED <<execVars, wakers, reactor_next_id, rpc, revents, wlock>>
  /\ UNCHANGED <<osVars, histVars, popped, got>>

\* Thread p, wake: push the id and drop the queue guard.
WakePushId(p) ==
  /\ wpc[p] = "w_push"
  /\ WakePush(p - 1)
  /\ qlock' = Free
  /\ wpc' = [wpc EXCEPT ![p] = "w_unpark"]
  /\ UNCHANGED <<epc, caller, cur, tasks, co, next_id, token, lres, pres>>
  /\ UNCHANGED <<wakers, reactor_next_id, rpc, revents, wlock>>
  /\ UNCHANGED <<osVars, lastSet, leafPoll, popped, got>>

\* Thread p, wake: unpark the executor thread.
WakeUnpark(p) ==
  /\ wpc[p] = "w_unpark"
  /\ Unpark
  /\ wpc' = [wpc EXCEPT ![p] = "w_done"]
  /\ UNCHANGED <<epc, caller, cur, tasks, co, ready_queue, next_id, lres, pres>>
  /\ UNCHANGED <<reactorVars, osVars, histVars, popped, got>>

\* The consumer: pop_ready again and again, keeping what it returned.
ConsumerPop ==
  /\ epc = "pop_locked"
  /\ caller = "consumer"
  /\ pop_ready
  /\ popped' = popped \o pop_ready_value
  /\ epc' = "pop"
  /\ UNCHANGED <<caller, cur, tasks, co, next_id, token, lres, pres>>
  /\ UNCHANGED <<wakers, reactor_next_id, rpc, revents, wlock>>
  /\ UNCHANGED <<osVars, histVars, wpc, got>>

InitWake == InitWith("pop", "consumer", NoId, <<>>, [p \in Producers |-> "w_lock"])

NextWake ==
  \/ \E p \in Producers : WakeLock(p) \/ WakePushId(p) \/ WakeUnpark(p)
  \/ PopLock
  \/ ConsumerPop

SpecWake == InitWake /\ [][NextWake]_vars

\* ------------------------------------------- the registry, called directly

OpIds == 1..MaxOps

\* The Wakers A and B: the Wakers of TaskIds 0 and 1.
TestWakers == {0, 1}

\* Events the OS or the reactor thread still holds, and Wakers fired.
EventsInFlight == Cardinality(osEvents) + Len(revents) + Len(ready_queue)

\* A caller registers a stream under the token id.
TestRegister(id) ==
  /\ epc = "rtest"
  /\ id \notin osReg
  /\ register(id)
  /\ UNCHANGED <<execVars, reactorVars, osEvents, conn, histVars, testVars>>

\* A caller stores the Waker w for the operation id.
TestSetWaker(w, id) ==
  /\ epc = "rtest"
  /\ set_waker(w, id)
  /\ UNCHANGED <<execVars, reactor_next_id, rpc, revents, wlock, qlock>>
  /\ UNCHANGED <<osVars, woken, owed, testVars>>

\* A caller deregisters the operation id; without a Waker stored for it
\* the unwrap panics.
TestDeregister(id) ==
  /\ epc = "rtest"
  /\ wlock = Free
  /\ IF id \in DOMAIN wakers
       THEN /\ deregister(id)
            /\ UNCHANGED epc
       ELSE /\ epc' = "panicked"
            /\ UNCHANGED <<wakers, lastSet, osReg, osEvents>>
  /\ UNCHANGED <<caller, cur, tasks, co, ready_queue, next_id, token, lres, pres>>
  /\ UNCHANGED <<reactor_next_id, rpc, revents, wlock, qlock>>
  /\ UNCHANGED <<conn, woken, owed, leafPoll, testVars>>

\* The OS has an event for the registered token id.
TestEvent(id) ==
  /\ id \in osReg
  /\ EventsInFlight < MaxEvents
  /\ osEvents' = osEvents \cup {id}
  /\ UNCHANGED <<execVars, reactorVars, osReg, conn, histVars, testVars>>

InitReactor == InitWith("rtest", "rtest", NoId, <<>>, <<>>)

NextReactor ==
  \/ \E id \in OpIds : TestRegister(id) \/ TestDeregister(id) \/ TestEvent(id)
  \/ \E id \in OpIds, w \in TestWakers : TestSetWaker(w, id)
  \/ ReactorPoll \/ ReactorLock \/ ReactorWakeLock \/ ReactorWakePush
  \/ ReactorUnpark \/ ReactorUnlock

SpecReactor == InitReactor /\ [][NextReactor]_vars

\* ------------------------------------- leaf futures built from threads

IdThreads == 1..NIdThreads

\* The futures thread p has built.
CallsOf(p) == Cardinality({i \in 1..Len(got) : got[i][1] = p})

\* Thread p builds a leaf future: HttpGetFuture::new takes its id from
\* Reactor::next_id.
NewFuture(p) ==
  /\ epc = "idtest"
  /\ CallsOf(p) < MaxCalls
  /\ got' = Append(got, <<p, HttpGetFuture_new(fetch_add(reactor_next_id).old).id>>)
  /\ reactor_next_id' = fetch_add(reactor_next_id).new
  /\ UNCHANGED <<execVars, wakers, rpc, revents, wlock, qlock>>
  /\ UNCHANGED <<osVars, histVars, wpc, popped>>

InitIds == InitWith("idtest", "idtest", NoId, <<>>, <<>>)

NextIds == \E p \in IdThreads : NewFuture(p)

SpecIds == InitIds /\ [][NextIds]_vars

\* ------------------------------------------ the coroutine, polled directly

\* A caller polls the coroutine with a Waker of TaskId 0, at any time.
TestPoll ==
  /\ epc = "test"
  /\ epc' = "co_loop"
  /\ pres' = NoResult
  /\ UNCHANGED <<caller, cur, tasks, co, ready_queue, next_id, token, lres>>
  /\ UNCHANGED <<reactorVars, osVars, histVars, testVars>>

InitCo == InitWith("test", "test", 0, (0 :> Coroutine0_new), <<>>)

\* ---------------------------------------------------------- specification

ExecNext ==
  \/ BlockOn \/ SpawnInsert \/ SpawnPush
  \/ PopLock \/ PopReady \/ GetFuture \/ AfterPoll \/ TaskCount \/ Park
  \/ CoStart \/ CoMatch \/ CoWait1Ready \/ CoWait2Ready
  \/ LeafSetWakerFirst \/ LeafReadData \/ LeafReadEof
  \/ LeafReadWouldBlock \/ LeafReadInterrupted \/ LeafSetWakerAgain \/ LeafDeregister

ReactorNext ==
  \/ ReactorPoll \/ ReactorLock \/ ReactorWakeLock \/ ReactorWakePush
  \/ ReactorUnpark \/ ReactorUnlock

PeerNext ==
  \E id \in DOMAIN conn :
    \/ \E b \in PeerBytes : PeerSend(id, b)
    \/ PeerClose(id)

Next == ExecNext \/ ReactorNext \/ PeerNext

Spec == Init /\ [][Next]_vars

\* The executor thread and the reactor thread keep running, and every peer
\* goes on to answer and close.
FairSpec ==
  /\ Init
  /\ [][Next]_vars
  /\ WF_vars(ExecNext)
  /\ WF_vars(ReactorNext)
  /\ WF_vars(PeerNext)

CoNext ==
  \/ TestPoll
  \/ CoStart \/ CoMatch \/ CoWait1Ready \/ CoWait2Ready
  \/ LeafSetWakerFirst \/ LeafReadData \/ LeafReadEof
  \/ LeafReadWouldBlock \/ LeafReadInterrupted \/ LeafSetWakerAgain \/ LeafDeregister

NextCo == CoNext \/ ReactorNext \/ PeerNext

SpecCo == InitCo /\ [][NextCo]_vars

\* ================================================================ claims

\* The positions of the executor thread inside a poll of the task `cur`.
PollPcs == {"co_loop", "leaf_setw1", "leaf_read", "leaf_setw2", "leaf_dereg", "co_after"}

\* The TaskIds block_on hands out: its own task gets the first id.
TaskIds == {0}

InQueue(t) == Count(ready_queue, t) > 0

\* C1: a task that returned Ready is never polled again (it is not put
\* back into the table, and no poll starts on a Resolved coroutine), and a
\* task is never in the table while it is being polled or while block_on
\* still holds it after the poll.
C1_PollProtocol ==
  /\ \A t \in tasks : co[t].state # "Resolved"
  /\ epc \in PollPcs \cup {"after_poll"} => cur \notin tasks
  /\ epc = "co_loop" => co[cur].state # "Resolved"
  /\ epc # "panicked"

\* C1 witness: the task has returned Ready and its id is popped once more.
C1_Witness ==
  /\ epc = "get_future"
  /\ cur \in DOMAIN co
  /\ co[cur].state = "Resolved"

\* C2: no wake-up is lost. Whenever the id of a task in the table is in
\* the ready queue, the executor polls that task later; in particular it
\* does not stay parked while the queue holds such an id.
C2_NoLostWakeup ==
  /\ \A t \in TaskIds : (t \in tasks /\ InQueue(t)) ~> (epc = "co_loop" /\ cur = t)
  /\ (epc = "park" /\ \E t \in tasks : InQueue(t)) ~> (epc # "park")

\* C2 witness: the wake landed after the executor found the queue empty
\* and counted the tasks, before it parks: the id is queued, the token set.
C2_Witness ==
  /\ epc = "park"
  /\ token
  /\ \E t \in tasks : InQueue(t)

\* C3: block_on returns, with every spawned task Resolved and the table
\* empty.
C3_Terminates ==
  <>(epc = "done" /\ tasks = {} /\ \A t \in DOMAIN co : co[t].state = "Resolved")

\* C3 witness: block_on has left its loop after the task completed.
C3_Witness ==
  /\ epc = "done"
  /\ co # <<>>
  /\ \A t \in DOMAIN co : co[t].state = "Resolved"

\* C4: block_on is done only with an empty table, and is at park only
\* with a non-empty one.
C4_ParkOrExit ==
  /\ epc = "done" => tasks = {}
  /\ epc = "park" => tasks # {}

\* C4 witness: the executor is about to park, the queue drained and the
\* task still in the table.
C4_Witness ==
  /\ epc = "park"
  /\ ready_queue = <<>>
  /\ tasks # {}
  /\ ~token

\* The latest Waker the history holds for the operation id.
LastSet(id) == lastSet[id][Len(lastSet[id])]

\* C5: the registry holds, for each OperationId, exactly the Waker of the
\* most recent set_waker since the last deregister, and an event fires that
\* Waker and no other.
C5_LastWakerWins ==
  /\ [](\A id \in OpIds :
          IF id \in DOMAIN wakers
            THEN id \in DOMAIN lastSet /\ lastSet[id] # <<>> /\ wakers[id] = LastSet(id)
            ELSE id \notin DOMAIN lastSet \/ lastSet[id] = <<>>)
  /\ [][ready_queue' # ready_queue =>
          ready_queue' = Append(ready_queue, LastSet(Head(revents)))]_vars

\* C5 witness: B replaced A under one id, an event for the id was
\* delivered, and B alone has been fired.
C5_Witness ==
  /\ rpc = "r_unpark"
  /\ Head(revents) \in DOMAIN lastSet
  /\ lastSet[Head(revents)] = <<0, 1>>
  /\ ready_queue = <<1>>

\* C6: of the ids pushed by the threads, none is lost, duplicated or
\* made up: each is in the queue or with the consumer, exactly once, from
\* its push on.
C6_ExactlyOnce ==
  /\ \A p \in Producers :
       Count(popped, p - 1) + Count(ready_queue, p - 1)
         = IF wpc[p] \in {"w_unpark", "w_done"} THEN 1 ELSE 0
  /\ \A i \in 1..Len(popped) : popped[i] + 1 \in Producers
  /\ \A i \in 1..Len(ready_queue) : ready_queue[i] + 1 \in Producers

\* C6 witness: every thread has fired and the consumer has drained the
\* queue.
C6_Witness ==
  /\ \A p \in Producers : wpc[p] = "w_done"
  /\ ready_queue = <<>>
  /\ Len(popped) = NProd

\* C7: a popped id with no task in the table is skipped: the executor
\* goes back to pop_ready without polling or panicking, and the table and
\* every task are left as they are.
C7_SpuriousWakeSkipped ==
  [][(epc = "get_future" /\ cur \notin tasks /\ epc' # epc) =>
       (epc' = "pop" /\ tasks' = tasks /\ co' = co /\ pres' = pres)]_vars

\* C7 witness: the executor has popped an id whose task is not in the
\* table.
C7_Witness ==
  /\ epc = "get_future"
  /\ cur \notin tasks

\* C8 as claimed: fires before the next poll are coalesced, so every poll
\* of a task follows a push of its id made since its previous poll began.
C8_FiresCoalesced ==
  (epc = "get_future" /\ cur \in tasks) => woken[cur]

\* C8 as amended: the executor never handles more pops of an id than the
\* id was pushed (one poll at most per fire); every push is in the queue
\* or in block_on's hand until then.
C8_OnePollPerFire ==
  \A t \in DOMAIN owed :
    /\ owed[t] >= 0
    /\ owed[t] = Count(ready_queue, t) + (IF epc = "get_future" /\ cur = t THEN 1 ELSE 0)

\* C8 witness: a second poll of the task is about to start with no push
\* of its id since the previous one began.
C8_Witness ==
  /\ epc = "get_future"
  /\ cur \in tasks
  /\ ~woken[cur]

\* C9: the coroutine's state moves only Start -> Wait1 -> Wait2 ->
\* Resolved; the second child is built only when the first child returned
\* Ready, and the coroutine returns Ready only when the second child did.
C9_StateOrder ==
  [][\A t \in DOMAIN co \cap DOMAIN co' :
       /\ co'[t].state # co[t].state =>
            <<co[t].state, co'[t].state>> \in
              {<<"Start", "Wait1">>, <<"Wait1", "Wait2">>, <<"Wait2", "Resolved">>}
       /\ (co[t].state = "Wait1" /\ co'[t].fut # co[t].fut /\ co'[t].fut.id # co[t].fut.id) =>
            (lres.ready /\ co'[t].state = "Wait2")
       /\ (pres'.ready /\ ~pres.ready /\ t = cur) =>
            (lres.ready /\ co[t].state = "Wait2" /\ co'[t].state = "Resolved")]_vars

\* C9 witness: the coroutine has gone through to Resolved and returned
\* Ready.
C9_Witness ==
  /\ co[0].state = "Resolved"
  /\ pres.ready
  /\ epc = "test"

\* C10: a poll of a Resolved coroutine panics and returns no PollState.
C10_ResolvedPanics ==
  [][/\ (epc = "co_loop" /\ co[cur].state = "Resolved") =>
          (epc' \in {"co_loop", "panicked"} /\ ~pres'.set)
     /\ epc = "panicked" => (epc' = "panicked" /\ ~pres'.set)]_vars

\* C10 witness: the coroutine was polled after it returned Ready, and the
\* poll panicked.
C10_Witness ==
  /\ epc = "panicked"
  /\ co[cur].state = "Resolved"

\* C11: the leaf future's buffer is at every moment the bytes read so
\* far, in arrival order, whatever the chunks; a read of n > 0 bytes goes
\* on reading in the same poll; and the value returned on the zero-byte
\* read is the decoding of all the bytes the peer sent.
C11_RoundTrip ==
  /\ [](\A t \in DOMAIN co :
          co[t].fut.stream =>
            co[t].fut.buffer = SubSeq(conn[co[t].fut.id].sent, 1, conn[co[t].fut.id].rd))
  /\ []((epc = "co_after" /\ lres.ready) =>
          lres.val = from_utf8_lossy(conn[Leaf.id].sent))
  /\ [][(epc = "leaf_read" /\ co'[cur].fut.buffer # co[cur].fut.buffer) =>
          (epc' = "leaf_read" /\ lres' = lres /\ pres' = pres)]_vars

\* C11 witness: a response of two bytes, the second not valid UTF-8, has
\* been read to the end and returned decoded.
C11_Witness ==
  /\ epc = "co_after"
  /\ lres.ready
  /\ conn[Leaf.id].sent = <<65, 255>>
  /\ lres.val = <<65, 65533>>

ReadPcs == {"leaf_read", "leaf_setw2", "leaf_dereg"}

\* The first poll of the leaf at hand has opened the connection,
\* registered the OperationId and stored the Waker of this poll.
FirstPollStarted ==
  /\ Leaf.stream
  /\ Leaf.id \in DOMAIN conn
  /\ Leaf.id \in osReg
  /\ Leaf.id \in DOMAIN wakers
  /\ wakers[Leaf.id] = cur

\* C13 as claimed: the first poll of a leaf future opens the connection,
\* registers, stores the Waker and returns NotReady, never Ready.
C13_FirstPollNotReady ==
  /\ (leafPoll.first /\ epc \in ReadPcs) => FirstPollStarted
  /\ (epc = "co_after" /\ lres.ready) => ~leafPoll.first

\* C13 as amended: the first poll opens the connection, registers and
\* stores the Waker before it reads; it returns NotReady with these in
\* place when the read would block, and returns Ready only on the
\* zero-byte read, with everything the peer sent decoded.
C13_FirstPollStarts ==
  /\ (leafPoll.first /\ epc \in ReadPcs) => FirstPollStarted
  /\ (leafPoll.first /\ epc = "after_poll" /\ ~pres.ready) => FirstPollStarted
  /\ (leafPoll.first /\ epc = "co_after" /\ lres.ready) =>
       /\ conn[Leaf.id].closed
       /\ Avail(Leaf.id) = 0
       /\ lres.val = from_utf8_lossy(conn[Leaf.id].sent)

\* C13 witness: the response and the close arrived before the first read,
\* and the first poll has returned Ready with the response.
C13_Witness ==
  /\ leafPoll.first
  /\ epc = "co_after"
  /\ lres.ready
  /\ lres.val # <<>>

\* C14: a poll of a leaf future that returns NotReady has called
\* set_waker in that poll, and while the task is suspended in the table
\* the registry holds, under the OperationId of the leaf it waits on, the
\* Waker of that task.
C14_WakerStored ==
  /\ (epc = "after_poll" /\ pres.set /\ ~pres.ready) =>
       /\ leafPoll.stored
       /\ Leaf.id \in DOMAIN wakers
       /\ wakers[Leaf.id] = cur
  /\ \A t \in tasks :
       co[t].state \in {"Wait1", "Wait2"} =>
         /\ co[t].fut.stream
         /\ co[t].fut.id \in DOMAIN wakers
         /\ wakers[co[t].fut.id] = t

\* C14 witness: a poll after the first found the read would block and
\* has returned NotReady, the Waker stored again.
C14_Witness ==
  /\ epc = "after_poll"
  /\ pres.set
  /\ ~pres.ready
  /\ ~leafPoll.first
  /\ leafPoll.stored

\* A coroutine between transitions: the stack slot saved as the state
\* variant needs it, a child held in Wait1 and Wait2 only.
WholeState(c) ==
  \/ c.state = "Start" /\ c.counter = None /\ c.fut = NoFut
  \/ c.state = "Wait1" /\ c.counter = Some(0) /\ c.fut.id > 0
  \/ c.state = "Wait2" /\ c.counter = Some(1) /\ c.fut.id > 0
  \/ c.state = "Resolved" /\ c.counter = None /\ c.fut = NoFut

\* C15: a poll that returns NotReady leaves the coroutine's state
\* variant, held child and stack slot as the child's poll left them, and
\* the coroutine is only ever seen between whole transitions, the stack
\* slot saved.
C15_NoTornPoll ==
  /\ [](\A t \in DOMAIN co : WholeState(co[t]))
  /\ [][(epc \in PollPcs /\ epc' \notin PollPcs \cup {"panicked"} /\ ~pres'.ready) =>
          (pres' = NotReady /\ co' = co)]_vars

\* C15 witness: after two transitions in earlier polls, a poll in Wait2
\* has returned NotReady.
C15_Witness ==
  /\ epc = "test"
  /\ pres = NotReady
  /\ co[0].state = "Wait2"
  /\ co[0].counter = Some(1)
  /\ ~leafPoll.first

\* The operation id has been deregistered.
Deregistered(id) == id \in DOMAIN lastSet /\ lastSet[id] = <<>>

\* C16: a leaf operation is deregistered in the poll that returns Ready
\* and nowhere else; a completed operation has no registry entry and no
\* OS registration; and once deregistered, an id gets no entry again and
\* is not deregistered a second time.
C16_DeregisterOnce ==
  /\ []((epc = "co_after" /\ lres.ready) =>
          (Deregistered(Leaf.id) /\ Leaf.id \notin DOMAIN wakers /\ Leaf.id \notin osReg))
  /\ [](\A id \in DOMAIN conn :
          ~conn[id].open => (Deregistered(id) /\ id \notin DOMAIN wakers /\ id \notin osReg))
  /\ [][\A id \in DOMAIN wakers :
          id \notin DOMAIN wakers' =>
            (epc = "leaf_dereg" /\ Leaf.id = id /\ epc' = "co_after" /\ lres'.ready)]_vars
  /\ [][\A id \in DOMAIN lastSet :
          lastSet[id] = <<>> =>
            /\ lastSet'[id] = <<>>
            /\ id \notin DOMAIN wakers'
            /\ id \notin osReg'
            /\ ~(epc' = "leaf_dereg" /\ co'[cur'].fut.id = id)]_vars

\* C16 witness: the first operation is completed and deregistered, the
\* second has its Waker in the registry.
C16_Witness ==
  /\ \E id \in DOMAIN lastSet : Deregistered(id) /\ ~conn[id].open
  /\ wakers # <<>>

\* C17: for the event at hand the loop fires the Waker the registry holds
\* under the event's id, and that one only; with no Waker under the id it
\* goes to the next event, nothing pushed and nobody unparked; and no step
\* of the loop changes the registry or fails.
C17_EventLoopFires ==
  [][/\ rpc' # rpc => (wakers' = wakers /\ epc' = epc)
     /\ (rpc = "r_lock" /\ rpc' # rpc) =>
          IF Head(revents) \in DOMAIN wakers
            THEN rpc' = "r_wake_lock"
            ELSE rpc' = "r_unlock" /\ ready_queue' = ready_queue /\ token' = token
     /\ ready_queue' # ready_queue =>
          /\ rpc = "r_wake_push"
          /\ Head(revents) \in DOMAIN wakers
          /\ ready_queue' = Append(ready_queue, wakers[Head(revents)])]_vars

\* C17 witness: an event whose id has no Waker has been passed over while
\* the registry holds a Waker under another id.
C17_Witness ==
  /\ rpc = "r_unlock"
  /\ Head(revents) \notin DOMAIN wakers
  /\ wakers # <<>>
  /\ ready_queue = <<>>

\* C18: the OperationIds of the futures built, by whatever threads in
\* whatever order, are pairwise distinct.
C18_IdsDistinct ==
  \A i, j \in 1..Len(got) : i # j => got[i][2] # got[j][2]

\* C18 witness: every thread has built all its futures, the calls of
\* different threads interleaved.
C18_Witness ==
  /\ Len(got) = NIdThreads * MaxCalls
  /\ \E i \in 1..(Len(got) - 2) :
       got[i][1] = got[i + 2][1] /\ got[i][1] # got[i + 1][1]

\* The executor thread is at a lock the reactor thread holds.
ExecBlocked ==
  \/ epc \in {"pop", "spawn_push"} /\ qlock = ReactorT
  \/ epc \in {"leaf_setw1", "leaf_setw2", "leaf_dereg"} /\ wlock = ReactorT

\* The reactor thread is at a lock the executor thread holds.
ReactorBlocked ==
  \/ rpc = "r_lock" /\ wlock = ExecT
  \/ rpc = "r_wake_lock" /\ qlock = ExecT

\* C19: the two threads are never both waiting for a lock the other
\* holds; the executor holds the queue lock inside pop_ready only, so it
\* holds no lock when it comes to set_waker or deregister; the reactor
\* takes the queue lock only while it holds the registry lock.
C19_NoDeadlock ==
  /\ ~(ExecBlocked /\ ReactorBlocked)
  /\ qlock = ExecT => epc = "pop_locked"
  /\ epc \in {"leaf_setw1", "leaf_setw2", "leaf_dereg"} => (qlock # ExecT /\ wlock # ExecT)
  /\ qlock = ReactorT => (rpc = "r_wake_push" /\ wlock = ReactorT)
  /\ rpc = "r_wake_lock" => wlock = ReactorT

\* C19 witness: the reactor, holding the registry lock, waits in wake for
\* the queue lock while the executor is inside pop_ready with it.
C19_Witness ==
  /\ rpc = "r_wake_lock"
  /\ wlock = ReactorT
  /\ qlock = ExecT
  /\ epc = "pop_locked"

\* C20: when the leaf future comes to deregister, the registry holds the
\* entry of its OperationId, so the unwrap in deregister does not panic.
C20_DeregisterFindsEntry ==
  /\ epc = "leaf_dereg" => (Leaf.id \in DOMAIN wakers /\ wakers[Leaf.id] = cur)
  /\ epc # "panicked"

\* C20 witness: the zero-byte read came in the first poll, and the leaf
\* is at deregister while the reactor handles an event of its id.
C20_Witness ==
  /\ epc = "leaf_dereg"
  /\ leafPoll.first
  /\ rpc = "r_unlock"
  /\ Head(revents) = Leaf.id

====
